---- MODULE Spec2Model ----
(***************************************************************************)
(* Model of the two core subsystems of forums_scraper:                     *)
(*   - scripts/merge_all_databases.py  (DatabaseMerger)                    *)
(*   - analysis/tokenization/token_analyzer.py  (TokenAnalyzer)            *)
(* SpecMerge is the merger run over a list of per-forum source databases.  *)
(***************************************************************************)
EXTENDS Integers, Sequences, FiniteSets, TLC

(***************************************************************************)
(* Bounds of the model.                                                    *)
(***************************************************************************)
MaxSources == 2
MaxRows == 2
MaxPosts == 2
MaxEvents == 2
MaxDuration == 1

(***************************************************************************)
(* The per-forum source databases, as SQLitePipeline creates them:         *)
(* integer AUTOINCREMENT ids starting at 1, foreign keys NOT NULL and      *)
(* enforced (PRAGMA foreign_keys=ON), one forum per database file.         *)
(* The field `data` stands for the non-key columns of a row (title, url,   *)
(* content, dates): the merger copies them verbatim.                       *)
(***************************************************************************)
TableOrder == <<"forums", "forum_sections", "forum_threads", "forum_users", "forum_posts">>
TableSet == {TableOrder[i] : i \in 1..Len(TableOrder)}
SpiderNames == <<"wiara", "radio_katolik", "dolina_modlitwy", "z_chrystusem">>
UserNames == <<"alice", "bob", "carol", "dave">>

Min(a, b) == IF a <= b THEN a ELSE b

ForumRows(k) ==
    {[id |-> 1, spider_name |-> SpiderNames[k], data |-> <<k, 1>>]}
SectionRows(k, ns) ==
    {[id |-> i, forum_id |-> 1, data |-> <<k, i>>] : i \in 1..ns}
ThreadRows(k, ns, nt) ==
    {[id |-> i, section_id |-> Min(i, ns), data |-> <<k, i>>] : i \in 1..nt}
UserRows(k, nu) ==
    {[id |-> i, username |-> <<UserNames[i]>>, data |-> <<k, i>>] : i \in 1..nu}
PostRows(k, nt, nu, np) ==
    {[id |-> i, thread_id |-> Min(i, nt), user_id |-> Min(np + 1 - i, nu), data |-> <<k, i>>] : i \in 1..np}

SourceDB(k, ns, nt, nu, np) ==
    [forums |-> ForumRows(k),
     forum_sections |-> SectionRows(k, ns),
     forum_threads |-> ThreadRows(k, ns, nt),
     forum_users |-> UserRows(k, nu),
     forum_posts |-> PostRows(k, nt, nu, np)]

\* every table of a source holds one row or MaxRows rows
RowCounts == {1, MaxRows}

\* a source whose only user was scraped with a blank name: the spiders strip
\* the author text and the column is NOT NULL, so the name is the empty string
SourceDBBlankUser(k) ==
    [SourceDB(k, 1, 1, 1, 1) EXCEPT
        !["forum_users"] = {[id |-> 1, username |-> <<>>, data |-> <<k, 1>>]}]

SourceDBs(k) ==
    {SourceDB(k, ns, nt, nu, np) : ns \in RowCounts, nt \in RowCounts,
                                   nu \in RowCounts, np \in RowCounts}
    \cup {SourceDBBlankUser(k)}

\* the lists of n source databases, the k-th one of forum k
RECURSIVE SourceListsOfLen(_)
SourceListsOfLen(n) ==
    IF n = 0 THEN {<<>>}
    ELSE {Append(s, d) : s \in SourceListsOfLen(n - 1), d \in SourceDBs(n)}

SourceLists == UNION {SourceListsOfLen(n) : n \in 1..MaxSources}

EmptyDB == [t \in TableSet |-> {}]
None == <<"None">>

VARIABLES
    source_dbs,      \* db_files: the source databases, in merge order
    use_id_offset,   \* merge_all_databases(use_id_offset)
    target,          \* committed content of the target database
    txn,             \* what target_conn sees: target plus its uncommitted inserts
    m_pc,            \* position in merge_all_databases / merge_database
    m_i,             \* index of the source being merged (1-based)
    m_tab,           \* index of the table being processed in merge_database
    tables,          \* tables of merge_database: the table names as the source lists them
    offset_ids,      \* offset_ids handed to merge_database (None or a map)
    merged_count,    \* total_merged local of merge_database
    total_merged,    \* total_merged of merge_all_databases
    failed,          \* sources whose merge_database ended in its except branch
    sidecar_dbs,     \* per source: <<its analysis_forums_<forum>.db>>, or <<>> if none
    gender_predictions, \* rows of the target's gender_predictions table
    gp_seq,          \* its AUTOINCREMENT sequence
    m_ret,           \* what merge_all_databases has returned ("None": not yet)
    exit_code        \* exit status of the merge script (-1: still running)

svars == <<sidecar_dbs, gender_predictions, gp_seq>>
rvars == <<m_ret, exit_code>>
mvars == <<source_dbs, use_id_offset, target, txn, m_pc, m_i, m_tab, tables,
           offset_ids, merged_count, total_merged, failed, svars, rvars>>

VARIABLES
    db_forums,         \* forums.spider_name of the unified database, in id order
    db_posts,          \* forum_posts of the unified database, joined to its forum
    spacy_available,   \* whether spaCy and its model can be loaded
    forums_to_analyze, \* self.forums_to_analyze (None: detect from the database)
    forum_filter,      \* the forums_to_analyze argument the analyzer is constructed with
    mp_config,         \* self.multiprocessing_config
    token_analysis,    \* rows of the token_analysis table
    ta_seq,            \* its AUTOINCREMENT sequence
    analysis_stats,    \* rows of the analysis_stats table
    as_seq,            \* its AUTOINCREMENT sequence
    stats,             \* self.stats, the in-memory counters
    today,             \* datetime.now().date()
    save_failures,     \* how many times the database has refused a write
    interrupts,        \* how many times the analyzer process has been killed
    sidecars,          \* how many sidecar databases have been merged into the tables
    resaves,           \* how many times a saved post has been saved again
    pb_pc,             \* position in process_batch
    pb_caller,         \* who called process_batch
    pb_posts,          \* posts, the batch returned by get_posts_to_analyze
    pb_k,              \* loop index over posts / results
    pb_results,        \* results
    pb_count,          \* processed_count
    pb_ret,            \* value returned by process_batch
    pb_saved,          \* post ids whose save_analysis_result returned True in this call
    pb_done,           \* chunks whose future has been collected (parallel path)
    pb_dur,            \* duration measured for one post in this call (ms)
    ra_pc,             \* position in analyze_all_forums_posts
    ra_show_progress,  \* its show_progress argument
    ra_total_posts,    \* total_posts
    ra_total_analyzed, \* total_analyzed
    is_running,        \* self.is_running
    ca_pc,             \* position in start_continuous_analysis
    stop_pc            \* whether the other thread has called stop_continuous_analysis

dbvars == <<db_forums, db_posts, spacy_available, forums_to_analyze, forum_filter,
            mp_config>>
tabvars == <<token_analysis, ta_seq, analysis_stats, as_seq>>
pbvars == <<pb_pc, pb_caller, pb_posts, pb_k, pb_results, pb_count, pb_ret,
            pb_saved, pb_done, pb_dur>>
envvars == <<today, save_failures, interrupts, sidecars, resaves>>

\* what has happened to the analyzer from outside: failed writes, kills, sidecar
\* merges, repeated saves and changes of date; a run has at most MaxEvents
Events == save_failures + interrupts + sidecars + resaves + (today - 1)
MoreEvents == Events < MaxEvents
ravars == <<ra_pc, ra_show_progress, ra_total_posts, ra_total_analyzed>>
cvars == <<is_running, ca_pc, stop_pc>>
avars == <<dbvars, tabvars, stats, envvars, pbvars, ravars, cvars>>

VARIABLES
    lock,              \* self.lock: 0 when free, else the thread that holds it
    th_prog,           \* per thread: the counter updates it has to perform
    th_pc,             \* per thread: index of its next step in th_prog
    th_reg,            \* per thread: the value it has read from self.stats
    th_added           \* per counter: the sum of the increments performed so far

tvars == <<lock, th_prog, th_pc, th_reg, th_added>>

vars == <<mvars, avars, tvars>>

(***************************************************************************)
(* DatabaseMerger                                                          *)
(***************************************************************************)
\* the lowest id instead of the highest
MaxIdOf_Min(rows) ==
    IF rows = {} THEN 0
    ELSE CHOOSE m \in {r.id : r \in rows} : \A r \in rows : r.id >= m

MaxIdOf(rows) ==
    IF rows = {} THEN 0
    ELSE CHOOSE m \in {r.id : r \in rows} : \A r \in rows : r.id <= m

get_max_ids_from_target(tgt) == [t \in TableSet |-> MaxIdOf(tgt[t])]

\* a forum_users row that gets the column but not the forum's name
ProcessUserRow_NoForumName(row, forum_name) ==
    [id |-> row.id,
     username |-> IF row.username # <<>> THEN <<forum_name, "_">> \o row.username
                  ELSE row.username,
     forum_id |-> None,
     data |-> row.data]

\* lines 356-385: forum_users gets the provenance column and the prefixed username
ProcessUserRow(row, forum_name) ==
    [id |-> row.id,
     username |-> IF row.username # <<>> THEN <<forum_name, "_">> \o row.username
                  ELSE row.username,
     forum_id |-> forum_name,
     data |-> row.data]

\* lines 396-398: the row's own id
ShiftOwnId(t, row, offs) ==
    IF t \in DOMAIN offs THEN [row EXCEPT !.id = @ + offs[t]] ELSE row

\* forum_posts.thread_id moved by the offset of forum_posts itself
ShiftForeignKeys_OwnTableOffset(t, row, offs) ==
    CASE t = "forum_sections" ->
            IF "forums" \in DOMAIN offs
            THEN [row EXCEPT !.forum_id = @ + offs["forums"]] ELSE row
      [] t = "forum_threads" ->
            IF "forum_sections" \in DOMAIN offs
            THEN [row EXCEPT !.section_id = @ + offs["forum_sections"]] ELSE row
      [] t = "forum_posts" ->
            LET r1 == IF "forum_threads" \in DOMAIN offs
                      THEN [row EXCEPT !.thread_id = @ + offs["forum_posts"]] ELSE row
            IN  IF "forum_users" \in DOMAIN offs
                THEN [r1 EXCEPT !.user_id = @ + offs["forum_users"]] ELSE r1
      [] OTHER -> row

\* lines 400-425: the foreign keys, by the offset of the table they reference
ShiftForeignKeys(t, row, offs) ==
    CASE t = "forum_sections" ->
            IF "forums" \in DOMAIN offs
            THEN [row EXCEPT !.forum_id = @ + offs["forums"]] ELSE row
      [] t = "forum_threads" ->
            IF "forum_sections" \in DOMAIN offs
            THEN [row EXCEPT !.section_id = @ + offs["forum_sections"]] ELSE row
      [] t = "forum_posts" ->
            LET r1 == IF "forum_threads" \in DOMAIN offs
                      THEN [row EXCEPT !.thread_id = @ + offs["forum_threads"]] ELSE row
            IN  IF "forum_users" \in DOMAIN offs
                THEN [r1 EXCEPT !.user_id = @ + offs["forum_users"]] ELSE r1
      [] OTHER -> row

\* only the row's own id is moved
RemapRow_OwnIdOnly(t, row, offs) ==
    IF offs = None THEN row ELSE ShiftOwnId(t, row, offs)

\* lines 387-429
RemapRow(t, row, offs) ==
    IF offs = None THEN row
    ELSE ShiftForeignKeys(t, ShiftOwnId(t, row, offs), offs)

\* an insert that overwrites the row holding the primary key
InsertOrIgnore_Overwrites(tab, rows) ==
    {x \in tab : \A r \in rows : r.id # x.id} \cup rows

\* INSERT OR IGNORE of a set of rows with pairwise distinct ids: a row whose
\* primary key is already in the table is skipped
InsertOrIgnore(tab, rows) ==
    tab \cup {r \in rows : \A x \in tab : x.id # r.id}

\* lines 340-435: the rows of one source table as they are inserted
PreparedRows(src, t, offs) ==
    LET forum_name == (CHOOSE f \in src.forums : TRUE).spider_name
        rows == IF t = "forum_users"
                THEN {ProcessUserRow(r, forum_name) : r \in src[t]}
                ELSE src[t]
    IN  {RemapRow(t, r, offs) : r \in rows}

DEFAULT_CHUNK_SIZE == 50
DEFAULT_BATCH_SIZE == 100

ZeroStats ==
    [total_posts_analyzed |-> 0, total_tokens_processed |-> 0,
     processing_errors |-> 0, spacy_tokens |-> 0, simple_tokens |-> 0]

\* no process_batch call is in progress
BatchIdle ==
    /\ pb_pc = "idle"
    /\ pb_caller = "none"
    /\ pb_posts = <<>>
    /\ pb_k = 1
    /\ pb_results = <<>>
    /\ pb_count = 0
    /\ pb_ret = 0
    /\ pb_saved = {}
    /\ pb_done = {}
    /\ pb_dur = 0

\* no analyze_all_forums_posts call is in progress
RunAllIdle ==
    /\ ra_pc = "idle"
    /\ ra_show_progress = FALSE
    /\ ra_total_posts = 0
    /\ ra_total_analyzed = 0

\* __init__ line 115; start_continuous_analysis has not been called, and the
\* thread that will call stop_continuous_analysis has not done so yet
ContinuousIdle ==
    /\ is_running = FALSE
    /\ ca_pc = "idle"
    /\ stop_pc = "pending"

\* number of threads that share one analyzer
NumThreads == 2
Threads == 1..NumThreads

\* no thread is working on the analyzer's counters
ThreadsIdle ==
    /\ lock = 0
    /\ th_prog = [t \in Threads |-> <<>>]
    /\ th_pc = [t \in Threads |-> 1]
    /\ th_reg = [t \in Threads |-> 0]
    /\ th_added = ZeroStats

\* no analyzer has been constructed on the target
AnalyzerNotStarted ==
    /\ ThreadsIdle
    /\ db_forums = <<>>
    /\ db_posts = <<>>
    /\ spacy_available = FALSE
    /\ forums_to_analyze = None
    /\ forum_filter = None
    /\ mp_config = [use_multiprocessing |-> TRUE, chunk_size |-> DEFAULT_CHUNK_SIZE]
    /\ token_analysis = {}
    /\ ta_seq = 0
    /\ analysis_stats = {}
    /\ as_seq = 0
    /\ stats = ZeroStats
    /\ today = 1
    /\ save_failures = 0
    /\ interrupts = 0
    /\ sidecars = 0
    /\ resaves = 0
    /\ BatchIdle
    /\ RunAllIdle
    /\ ContinuousIdle

MergeInit ==
    /\ source_dbs \in SourceLists
    /\ use_id_offset \in BOOLEAN
    /\ target = EmptyDB
    /\ txn = EmptyDB
    /\ m_pc = "next_source"
    /\ m_i = 1
    /\ m_tab = 1
    /\ tables = <<>>
    /\ offset_ids = None
    /\ merged_count = 0
    /\ total_merged = 0
    /\ failed = {}
    /\ sidecar_dbs = [k \in DOMAIN source_dbs |-> <<>>]
    /\ gender_predictions = {}
    /\ gp_seq = 0
    /\ m_ret = "None"
    /\ exit_code = -1
    /\ AnalyzerNotStarted

\* merge_database lines 326-327: SELECT name FROM sqlite_master has no ORDER
\* BY and lists the tables in the order the source file holds them: the
\* order SQLitePipeline created them in, or, where a table was created
\* before its parents, any other; the model takes the two ends
Reverse(sq) == [k \in 1..Len(sq) |-> sq[Len(sq) + 1 - k]]
TableListings == {TableOrder, Reverse(TableOrder)}

\* merge_all_databases lines 481-495 and merge_database lines 310-335:
\* the offsets of this source, the connection to the target and the list of
\* the source's tables
BeginSource ==
    /\ m_pc = "next_source"
    /\ m_i <= Len(source_dbs)
    /\ offset_ids' = IF use_id_offset /\ m_i > 1
                     THEN get_max_ids_from_target(target) ELSE None
    /\ txn' = target
    /\ m_tab' = 1
    /\ \E listing \in TableListings : tables' = listing
    /\ merged_count' = 0
    /\ m_pc' = "tables"
    /\ UNCHANGED <<source_dbs, use_id_offset, target, m_i, total_merged, failed>>
    /\ UNCHANGED <<avars, svars, rvars, tvars>>

\* merge_database lines 432-435: the rows of a table are handed to executemany
\* in slices of batch_size = 1000; range(0, len(rows), batch_size) has this many steps
insert_batch_size == 1000
NumBatches(n) == (n + insert_batch_size - 1) \div insert_batch_size

\* every executemany is followed by a commit
AfterBatch_Commits(committed, view) == view

\* lines 432-435: the loop holds no commit; what is committed stays as it was
AfterBatch(committed, view) == committed

\* merge_database lines 337-440: one table of the source
InsertTable ==
    /\ m_pc = "tables"
    /\ m_tab <= Len(tables)
    /\ LET t == tables[m_tab]
           rows == PreparedRows(source_dbs[m_i], t, offset_ids)
       IN  /\ txn' = [txn EXCEPT ![t] = InsertOrIgnore(@, rows)]
           /\ merged_count' = merged_count + Cardinality(rows)
    /\ target' = AfterBatch(target, txn')
    /\ m_tab' = m_tab + 1
    /\ UNCHANGED <<source_dbs, use_id_offset, m_pc, m_i, tables, offset_ids,
                   total_merged, failed>>
    /\ UNCHANGED <<avars, svars, rvars, tvars>>

\* what was inserted before the error stays in the target
Rollback_KeepsInserted(committed, view) == view

\* the connection is dropped without a commit
Rollback(committed, view) == committed

\* merge_database lines 454-456: an execute raised sqlite3.Error
InsertFails ==
    /\ m_pc = "tables"
    /\ m_tab <= Len(tables)
    /\ target' = Rollback(target, txn)
    /\ txn' = target'
    /\ failed' = failed \cup {m_i}
    /\ m_i' = m_i + 1
    /\ m_pc' = "next_source"
    /\ tables' = <<>>
    /\ UNCHANGED <<source_dbs, use_id_offset, m_tab, offset_ids, merged_count,
                   total_merged>>
    /\ UNCHANGED <<avars, svars, rvars, tvars>>

\* merge_database lines 442-452 and merge_all_databases line 497
CommitSource ==
    /\ m_pc = "tables"
    /\ m_tab > Len(tables)
    /\ target' = txn
    /\ IF sidecar_dbs[m_i] = <<>>
       THEN /\ total_merged' = total_merged + merged_count
            /\ m_i' = m_i + 1
            /\ m_pc' = "next_source"
       ELSE /\ m_pc' = "sidecar"
            /\ UNCHANGED <<m_i, total_merged>>
    /\ tables' = <<>>
    /\ UNCHANGED <<source_dbs, use_id_offset, txn, m_tab, offset_ids,
                   merged_count, failed>>
    /\ UNCHANGED <<avars, svars, rvars, tvars>>

\* merge_all_databases lines 499-514: it returns True whatever merge_database
\* returned; main (line 582) drops the result and the script ends normally
FinishMerge ==
    /\ m_pc = "next_source"
    /\ m_i > Len(source_dbs)
    /\ m_pc' = "done"
    /\ m_ret' = "True"
    /\ exit_code' = 0
    /\ UNCHANGED <<source_dbs, use_id_offset, target, txn, m_i, m_tab, tables,
                   offset_ids, merged_count, total_merged, failed>>
    /\ UNCHANGED <<avars, svars, tvars>>

MergeNext ==
    \/ BeginSource
    \/ InsertTable
    \/ InsertFails
    \/ CommitSource
    \/ FinishMerge

SpecMerge == MergeInit /\ [][MergeNext]_vars


(***************************************************************************)
(* TokenAnalyzer: the pure functions                                       *)
(***************************************************************************)
min_word_length == 2
MP_THRESHOLD == 10

\* str.split(): the maximal runs of non-whitespace characters
RECURSIVE SplitFrom(_, _, _)
SplitFrom(text, i, cur) ==
    IF i > Len(text) THEN (IF cur = <<>> THEN <<>> ELSE <<cur>>)
    ELSE IF text[i] = " "
         THEN (IF cur = <<>> THEN <<>> ELSE <<cur>>) \o SplitFrom(text, i + 1, <<>>)
         ELSE SplitFrom(text, i + 1, Append(cur, text[i]))

split(text) == SplitFrom(text, 1, <<>>)

LongEnough(w) == Len(w) >= min_word_length

\* int(n * 0.75)
TimesFactor(n) == (n * 3) \div 4

\* _calculate_tokens_simple
calculate_tokens_simple(text) ==
    TimesFactor(Len(SelectSeq(split(text), LongEnough)))

\* _calculate_tokens_spacy on texts of letters and blanks: one token per
\* word, counted by _should_count_token when it has min_word_length letters
calculate_tokens_spacy(text) == Len(SelectSeq(split(text), LongEnough))

\* calculate_tokens (sequential path)
calculate_tokens(text, spacy) ==
    IF text = <<>> THEN [tokens |-> 0, words |-> 0, characters |-> 0]
    ELSE [tokens |-> IF spacy THEN calculate_tokens_spacy(text)
                     ELSE calculate_tokens_simple(text),
          words |-> Len(split(text)),
          characters |-> Len(text)]

\* _calculate_tokens_worker_static (worker processes)
calculate_tokens_worker_static(text) ==
    IF text = <<>> THEN [tokens |-> 0, words |-> 0, characters |-> 0]
    ELSE LET word_count == Len(SelectSeq(split(text), LongEnough))
         IN  [tokens |-> TimesFactor(word_count),
              words |-> word_count,
              characters |-> Len(text)]

\* hashlib.md5(text).hexdigest(): a digest that is determined by the text
generate_analysis_hash(text) == <<"md5">> \o text

\* A content value that is not text: SQLite keeps a BLOB in a TEXT column and
\* hands it over as bytes.  bytes can be measured and split, but has no
\* encode(), so hashing it raises.
Blob == <<"Blob">>
encode_raises(text) == text = Blob

\* analyze_single_post: the TokenAnalysisResult of one post
analyze_single_post(post_id, content, spacy, now, dur) ==
    LET token_info == calculate_tokens(content, spacy)
    IN  IF encode_raises(content) THEN None
        ELSE [post_id |-> post_id,
              token_count |-> token_info.tokens,
              word_count |-> token_info.words,
              character_count |-> token_info.characters,
              analysis_hash |-> generate_analysis_hash(content),
              analyzed_at |-> now,
              processing_time_ms |-> dur]

\* the result dictionary built by _process_chunk_worker_static for one post
worker_result(post_id, content, now, dur) ==
    LET token_result == calculate_tokens_worker_static(content)
    IN  [post_id |-> post_id,
         token_count |-> token_result.tokens,
         word_count |-> token_result.words,
         character_count |-> token_result.characters,
         analysis_hash |-> generate_analysis_hash(content),
         analyzed_at |-> now,
         processing_time_ms |-> dur]

(***************************************************************************)
(* The analysis tables                                                     *)
(***************************************************************************)
\* UNIQUE constraints declared by create_analysis_database
\* token_analysis declared without UNIQUE(post_id)
TokenAnalysisUnique_None == {}

TokenAnalysisUnique == {"post_id"}
AnalysisStatsUnique == {}

\* INSERT OR REPLACE of one row without an explicit id: the rows that clash
\* with it on a UNIQUE column are deleted, the row gets the next id
InsertOrReplace(rows, seq, new, unique) ==
    {r \in rows : \A c \in unique : r[c] # new[c]} \cup {[id |-> seq + 1] @@ new}

\* INSERT OR IGNORE of one row without an explicit id
InsertOrIgnoreRow(rows, seq, new, unique) ==
    IF \E r \in rows : \E c \in unique : r[c] = new[c]
    THEN rows
    ELSE rows \cup {[id |-> seq + 1] @@ new}

HasAnalysis(ta, post_id) == \E r \in ta : r.post_id = post_id

Range(sq) == {sq[i] : i \in DOMAIN sq}

\* lines 382-385: with no forums set, they are read from the forums table
\* and kept in self.forums_to_analyze
DetectForums(forums_tab, forums) ==
    IF forums = None \/ forums = <<>> THEN forums_tab ELSE forums

\* the SELECT without its "ta.post_id IS NULL" condition
PendingIds_AllPosts(posts, ta, forums) ==
    {i \in DOMAIN posts : posts[i].forum \in Range(forums)}

\* the SELECT of get_posts_to_analyze / _get_total_posts_to_analyze
PendingIds(posts, ta, forums) ==
    {i \in DOMAIN posts : posts[i].forum \in Range(forums) /\ ~HasAnalysis(ta, i)}

\* the elements of S in ascending order
SortedSeq(S) ==
    [k \in 1..Cardinality(S) |->
        CHOOSE x \in S : Cardinality({y \in S : y < x}) = k - 1]

FirstN(sq, n) == SubSeq(sq, 1, Min(n, Len(sq)))

\* get_posts_to_analyze: ORDER BY p.id LIMIT batch_size
get_posts_to_analyze(posts, ta, forums, batch_size) ==
    LET ids == FirstN(SortedSeq(PendingIds(posts, ta, forums)), batch_size)
    IN  [k \in 1..Len(ids) |-> [id |-> ids[k], content |-> posts[ids[k]].content]]

get_total_posts_to_analyze(posts, ta, forums) ==
    Cardinality(PendingIds(posts, ta, forums))

RECURSIVE SumField(_, _)
SumField(results, f) ==
    IF results = <<>> THEN 0
    ELSE Head(results)[f] + SumField(Tail(results), f)

\* the row update_analysis_stats writes for a batch (lines 455-474)
\* processing_time_seconds is kept in thousandths of a second: the code
\* divides the sum of milliseconds by 1000, and the model has integers only.
StatsRow(results, date) ==
    [analysis_date |-> date,
     posts_analyzed |-> Len(results),
     total_tokens |-> SumField(results, "token_count"),
     total_words |-> SumField(results, "word_count"),
     total_characters |-> SumField(results, "character_count"),
     processing_time_seconds |-> SumField(results, "processing_time_ms")]


(***************************************************************************)
(* The unified databases and configurations the analyzer is run on         *)
(***************************************************************************)

TextAbC == <<"a", "b", " ", "c">>
Contents == {None, <<>>, TextAbC}
ForumA == SpiderNames[1]
ForumB == SpiderNames[2]

\* up to MaxPosts posts of any content; the last one may belong to forum B
SmallDBs ==
    UNION {{[forums |-> <<ForumA, ForumB>>,
             posts |-> [i \in 1..n |->
                          [content |-> c[i],
                           forum |-> IF lastB /\ i = n THEN ForumB ELSE ForumA]]] :
               c \in [1..n -> Contents], lastB \in BOOLEAN} : n \in 1..MaxPosts}

\* a post whose content is not text, followed by a post of text
BlobDB ==
    [forums |-> <<ForumA, ForumB>>,
     posts |-> <<[content |-> Blob, forum |-> ForumA],
                 [content |-> TextAbC, forum |-> ForumA]>>]

\* a database that only one spider has written to so far
OneForumDB ==
    [forums |-> <<ForumA>>,
     posts |-> <<[content |-> TextAbC, forum |-> ForumA]>>]

\* one post more than the multiprocessing threshold
BigDBs ==
    {[forums |-> <<ForumA, ForumB>>,
      posts |-> [i \in 1..(MP_THRESHOLD + 1) |->
                   [content |-> IF i = 1 THEN c ELSE TextAbC, forum |-> ForumA]]] :
        c \in Contents \cup {Blob}}

Setup(d, f, mp, cs) ==
    [db |-> d, forums |-> f, spacy |-> FALSE,
     config |-> [use_multiprocessing |-> mp, chunk_size |-> cs]]

\* a forum filter is set where the database has posts of both forums
ForumFilters(d) ==
    IF \E i \in DOMAIN d.posts : d.posts[i].forum = ForumB
    THEN {None, <<ForumA>>} ELSE {None}

AnalyzerSetups ==
    UNION {{Setup(d, f, TRUE, DEFAULT_CHUNK_SIZE) : f \in ForumFilters(d)} :
              d \in SmallDBs \cup {BlobDB, OneForumDB}}
    \cup
    {Setup(d, None, TRUE, cs) :
        d \in BigDBs, cs \in {MP_THRESHOLD \div 2 + 1, DEFAULT_CHUNK_SIZE}}
    \cup
    {Setup(d, None, FALSE, cs) :
        d \in BigDBs, cs \in {MP_THRESHOLD \div 4 + 1, DEFAULT_CHUNK_SIZE}}

\* The large databases exist to reach the worker pool; single-post batches,
\* the change of date and the other writers of the analysis tables are
\* explored on the small ones.  Every post of a run takes the same measured
\* time.
SmallRun(posts) == Len(posts) <= MaxPosts
BatchSizes(posts) ==
    IF SmallRun(posts) THEN {1, DEFAULT_BATCH_SIZE} ELSE {DEFAULT_BATCH_SIZE}
Durations(posts) == {MaxDuration}

\* the merger is not running
MergerIdle ==
    /\ source_dbs = <<>>
    /\ use_id_offset = TRUE
    /\ target = EmptyDB
    /\ txn = EmptyDB
    /\ m_pc = "done"
    /\ m_i = 1
    /\ m_tab = 1
    /\ tables = <<>>
    /\ offset_ids = None
    /\ merged_count = 0
    /\ total_merged = 0
    /\ failed = {}
    /\ sidecar_dbs = <<>>
    /\ gender_predictions = {}
    /\ gp_seq = 0
    /\ m_ret = "None"
    /\ exit_code = -1

\* TokenAnalyzer.__init__ and create_analysis_database on a setup
AnalyzerInitOn(setup) ==
    /\ db_forums = setup.db.forums
    /\ db_posts = setup.db.posts
    /\ spacy_available = setup.spacy
    /\ forums_to_analyze = setup.forums
    /\ forum_filter = setup.forums
    /\ mp_config = setup.config
    /\ token_analysis = {}
    /\ ta_seq = 0
    /\ analysis_stats = {}
    /\ as_seq = 0
    /\ stats = ZeroStats
    /\ today = 1
    /\ save_failures = 0
    /\ interrupts = 0
    /\ sidecars = 0
    /\ resaves = 0
    /\ BatchIdle
    /\ RunAllIdle
    /\ ContinuousIdle

AnalyzeInit ==
    /\ MergerIdle
    /\ ThreadsIdle
    /\ \E setup \in AnalyzerSetups : AnalyzerInitOn(setup)

(***************************************************************************)
(* TokenAnalyzer.process_batch                                             *)
(***************************************************************************)
\* lines 492-502, with get_posts_to_analyze
\* The tokenizer counters grow with every analysis of a post that gets no
\* row; batches are started until they exceed the posts and the events.
MoreBatches == stats.simple_tokens + stats.spacy_tokens <= Len(db_posts) + MaxEvents

BeginBatch(caller, batch_size) ==
    LET forums == DetectForums(db_forums, forums_to_analyze)
        posts == get_posts_to_analyze(db_posts, token_analysis, forums, batch_size)
    IN  /\ MoreBatches
        /\ forums_to_analyze' = forums
        /\ pb_caller' = caller
        /\ pb_posts' = posts
        /\ pb_k' = 1
        /\ pb_results' = <<>>
        /\ pb_count' = 0
        /\ pb_saved' = {}
        /\ pb_done' = {}
        /\ pb_ret' = 0
        /\ \E d \in Durations(db_posts) : pb_dur' = d
        /\ pb_pc' = IF posts = <<>> THEN "returned"
                    ELSE IF mp_config.use_multiprocessing /\ Len(posts) > MP_THRESHOLD
                         THEN "parallel" ELSE "sequential"
        /\ UNCHANGED <<db_forums, db_posts, spacy_available, forum_filter, mp_config, tabvars,
                       stats, envvars>>

\* the CLI's analyze_single_batch
ProcessBatch ==
    /\ pb_pc \in {"idle", "returned"}
    /\ pb_caller \in {"none", "cli"}
    /\ \E batch_size \in BatchSizes(db_posts) : BeginBatch("cli", batch_size)
    /\ UNCHANGED <<mvars, ravars, cvars, tvars>>

\* calculate_tokens lines 226-234: which tokenizer counted
CountTokenizer(st, content) ==
    IF content = <<>> THEN st
    ELSE IF spacy_available
         THEN [st EXCEPT !.spacy_tokens = @ + 1]
         ELSE [st EXCEPT !.simple_tokens = @ + 1]

\* a save that leaves its row uncommitted
save_analysis_result_Uncommitted(ta, seq, result) == ta

\* save_analysis_result, lines 421-438
save_analysis_result(ta, seq, result) ==
    InsertOrReplace(ta, seq, result, TokenAnalysisUnique)

\* lines 516-529: one post of the sequential loop; save_ok is what
\* save_analysis_result returns
SequentialPost(save_ok) ==
    LET post == pb_posts[pb_k]
        result == analyze_single_post(post.id, post.content, spacy_available,
                                      today, pb_dur)
        st1 == CountTokenizer(stats, post.content)
    IN  IF post.content = None
        THEN /\ save_ok
             /\ UNCHANGED <<pb_results, pb_count, pb_saved, token_analysis, ta_seq,
                            stats, save_failures>>
        ELSE IF encode_raises(post.content)
        THEN /\ save_ok
             /\ stats' = st1
             /\ UNCHANGED <<pb_results, pb_count, pb_saved, token_analysis, ta_seq,
                            save_failures>>
        ELSE /\ pb_results' = Append(pb_results, result)
             /\ pb_count' = pb_count + 1
             /\ IF save_ok
                THEN /\ token_analysis' = save_analysis_result(token_analysis, ta_seq, result)
                     /\ ta_seq' = ta_seq + 1
                     /\ pb_saved' = pb_saved \cup {post.id}
                     /\ stats' = [st1 EXCEPT !.total_posts_analyzed = @ + 1]
                     /\ UNCHANGED save_failures
                ELSE /\ MoreEvents
                     /\ save_failures' = save_failures + 1
                     /\ stats' = [st1 EXCEPT !.processing_errors = @ + 1]
                     /\ UNCHANGED <<token_analysis, ta_seq, pb_saved>>

SequentialStep ==
    /\ pb_pc = "sequential"
    /\ pb_k <= Len(pb_posts)
    /\ \E save_ok \in BOOLEAN : SequentialPost(save_ok)
    /\ pb_k' = pb_k + 1
    /\ UNCHANGED <<dbvars, analysis_stats, as_seq, today, interrupts, sidecars, resaves, pb_pc,
                   pb_caller, pb_posts, pb_ret, pb_done, pb_dur>>
    /\ UNCHANGED <<mvars, ravars, cvars, tvars>>

\* update_analysis_stats, lines 449-483
update_analysis_stats(results) ==
    IF results = <<>>
    THEN UNCHANGED <<analysis_stats, as_seq, stats>>
    ELSE LET row == StatsRow(results, today)
         IN  /\ analysis_stats' = InsertOrReplace(analysis_stats, as_seq, row,
                                                  AnalysisStatsUnique)
             /\ as_seq' = as_seq + 1
             /\ stats' = [stats EXCEPT
                            !.total_posts_analyzed = @ + Len(results),
                            !.total_tokens_processed = @ + row.total_tokens]

\* lines 531-536 and 592-611: the statistics of the batch and the return
FinishBatch ==
    /\ update_analysis_stats(pb_results)
    /\ pb_ret' = pb_count
    /\ pb_pc' = "returned"
    /\ UNCHANGED <<dbvars, token_analysis, ta_seq, envvars, pb_caller,
                   pb_posts, pb_k, pb_results, pb_count, pb_saved, pb_done, pb_dur>>
    /\ UNCHANGED <<mvars, ravars, cvars, tvars>>

SequentialFinish ==
    /\ pb_pc = "sequential"
    /\ pb_k > Len(pb_posts)
    /\ FinishBatch

\* line 549: chunks = [posts[i:i + chunk_size] for i in range(0, len(posts), chunk_size)]
NumChunks(n, chunk_size) == (n + chunk_size - 1) \div chunk_size
\* slices that leave out the first post of every chunk
Chunk_SkipsFirst(posts, chunk_size, c) ==
    SubSeq(posts, (c - 1) * chunk_size + 2, Min(c * chunk_size, Len(posts)))

Chunk(posts, chunk_size, c) ==
    SubSeq(posts, (c - 1) * chunk_size + 1, Min(c * chunk_size, Len(posts)))

\* _process_chunk_worker_static: the result dictionaries of one chunk
RECURSIVE process_chunk_worker_static(_, _, _)
process_chunk_worker_static(chunk, now, dur) ==
    IF chunk = <<>> THEN <<>>
    ELSE LET post == Head(chunk)
             rest == process_chunk_worker_static(Tail(chunk), now, dur)
         IN  IF post.content = None \/ encode_raises(post.content) THEN rest
             ELSE <<worker_result(post.id, post.content, now, dur)>> \o rest

\* lines 564-572: the future of one chunk completes and is collected
ParallelCollect ==
    /\ pb_pc = "parallel"
    /\ \E c \in (1..NumChunks(Len(pb_posts), mp_config.chunk_size)) \ pb_done :
          LET chunk_results ==
                  process_chunk_worker_static(
                      Chunk(pb_posts, mp_config.chunk_size, c), today, pb_dur)
          IN  /\ pb_results' = pb_results \o chunk_results
              /\ pb_count' = pb_count + Len(chunk_results)
              /\ pb_done' = pb_done \cup {c}
              /\ pb_pc' = IF pb_done' = 1..NumChunks(Len(pb_posts), mp_config.chunk_size)
                          THEN "parallel_save" ELSE "parallel"
    /\ pb_k' = 1
    /\ UNCHANGED <<dbvars, tabvars, stats, envvars, pb_caller,
                   pb_posts, pb_ret, pb_saved, pb_dur>>
    /\ UNCHANGED <<mvars, ravars, cvars, tvars>>

\* lines 613-616: the pool raised; the batch is handed to _process_batch_sequential
ParallelFails ==
    /\ pb_pc = "parallel"
    /\ pb_pc' = "sequential"
    /\ pb_k' = 1
    /\ pb_results' = <<>>
    /\ pb_count' = 0
    /\ pb_done' = {}
    /\ UNCHANGED <<dbvars, tabvars, stats, envvars, pb_caller,
                   pb_posts, pb_ret, pb_saved, pb_dur>>
    /\ UNCHANGED <<mvars, ravars, cvars, tvars>>

\* lines 575-590: one collected result is saved
ParallelSave ==
    /\ pb_pc = "parallel_save"
    /\ pb_k <= Len(pb_results)
    /\ \E save_ok \in BOOLEAN :
          IF save_ok
          THEN /\ token_analysis' = save_analysis_result(token_analysis, ta_seq,
                                                         pb_results[pb_k])
               /\ ta_seq' = ta_seq + 1
               /\ pb_saved' = pb_saved \cup {pb_results[pb_k].post_id}
               /\ stats' = [stats EXCEPT !.total_posts_analyzed = @ + 1]
               /\ UNCHANGED save_failures
          ELSE /\ MoreEvents
               /\ save_failures' = save_failures + 1
               /\ stats' = [stats EXCEPT !.processing_errors = @ + 1]
               /\ UNCHANGED <<token_analysis, ta_seq, pb_saved>>
    /\ pb_k' = pb_k + 1
    /\ UNCHANGED <<dbvars, analysis_stats, as_seq, today, interrupts, sidecars, resaves, pb_pc,
                   pb_caller, pb_posts, pb_results, pb_count, pb_ret, pb_done, pb_dur>>
    /\ UNCHANGED <<mvars, ravars, cvars, tvars>>

ParallelFinish ==
    /\ pb_pc = "parallel_save"
    /\ pb_k > Len(pb_results)
    /\ FinishBatch

\* the analyzer process is killed during a batch and started again
Interrupt ==
    /\ pb_pc \in {"sequential", "parallel", "parallel_save"}
    /\ pb_pc' = "idle"
    /\ pb_caller' = "none"
    /\ pb_posts' = <<>>
    /\ pb_k' = 1
    /\ pb_results' = <<>>
    /\ pb_count' = 0
    /\ pb_ret' = 0
    /\ pb_saved' = {}
    /\ pb_done' = {}
    /\ pb_dur' = 0
    /\ stats' = ZeroStats
    /\ forums_to_analyze' = forum_filter
    /\ MoreEvents
    /\ interrupts' = interrupts + 1
    /\ UNCHANGED <<db_forums, db_posts, spacy_available, forum_filter, mp_config,
                   tabvars, today, save_failures, sidecars, resaves>>
    /\ UNCHANGED <<mvars, ravars, cvars, tvars>>

\* midnight passes while no batch is running
NextDay ==
    /\ pb_pc \in {"idle", "returned"}
    /\ SmallRun(db_posts)
    /\ MoreEvents
    /\ today' = today + 1
    /\ UNCHANGED <<dbvars, tabvars, stats, save_failures, interrupts, sidecars,
                   resaves, pbvars>>
    /\ UNCHANGED <<mvars, ravars, cvars, tvars>>


(***************************************************************************)
(* Other writers of the analysis tables                                    *)
(***************************************************************************)
\* a per-forum analysis database: the rows an analyzer left for the first n
\* posts of its forum, and the statistics row of that batch
SidecarResult(i) ==
    analyze_single_post(i, TextAbC, FALSE, 1, MaxDuration)
SidecarDB(n) ==
    LET rows == [i \in 1..n |-> SidecarResult(i)]
    IN  [token_analysis |-> rows, analysis_stats |-> <<StatsRow(rows, 1)>>]
SidecarDBs == {SidecarDB(n) : n \in 1..MaxRows}

\* _merge_analysis_for_forum lines 226-241: INSERT OR IGNORE of every
\* token_analysis row with post_id moved by the forum_posts offset
RECURSIVE merge_token_analysis(_, _, _, _)
merge_token_analysis(ta, seq, rows, post_off) ==
    IF rows = <<>> THEN [rows |-> ta, seq |-> seq]
    ELSE LET r == [Head(rows) EXCEPT !.post_id = @ + post_off]
             ta1 == InsertOrIgnoreRow(ta, seq, r, TokenAnalysisUnique)
         IN  merge_token_analysis(ta1, IF ta1 = ta THEN seq ELSE seq + 1,
                                  Tail(rows), post_off)

\* _merge_analysis_for_forum lines 243-254: analysis_stats is copied 1:1
RECURSIVE merge_analysis_stats(_, _, _)
merge_analysis_stats(st, seq, rows) ==
    IF rows = <<>> THEN [rows |-> st, seq |-> seq]
    ELSE merge_analysis_stats(st \cup {[id |-> seq + 1] @@ Head(rows)}, seq + 1,
                              Tail(rows))

\* _merge_analysis_for_forum on the tables the analyzer works on, while the
\* analyzer is not running
SidecarMerge ==
    /\ pb_pc = "idle"
    /\ SmallRun(db_posts)
    /\ MoreEvents
    /\ sidecars' = sidecars + 1
    /\ \E sc \in SidecarDBs, post_off \in 0..MaxRows :
          \* the posts of the sidecar's forum are in the unified database
          /\ Len(sc.token_analysis) + post_off <= Len(db_posts)
          /\ LET ta == merge_token_analysis(token_analysis, ta_seq,
                                            sc.token_analysis, post_off)
                 st == merge_analysis_stats(analysis_stats, as_seq,
                                            sc.analysis_stats)
             IN  /\ token_analysis' = ta.rows
                 /\ ta_seq' = ta.seq
                 /\ analysis_stats' = st.rows
                 /\ as_seq' = st.seq
    /\ UNCHANGED <<dbvars, stats, today, save_failures, interrupts, resaves, pbvars>>
    /\ UNCHANGED <<mvars, ravars, cvars, tvars>>

\* save_analysis_result is called for a post that already has its row, by a
\* caller that analysed the post once more after a batch
SaveAgain ==
    /\ pb_pc = "returned"
    /\ SmallRun(db_posts)
    /\ MoreEvents
    /\ resaves' = resaves + 1
    /\ \E i \in DOMAIN db_posts :
          /\ db_posts[i].content # None
          /\ ~encode_raises(db_posts[i].content)
          /\ HasAnalysis(token_analysis, i)
          /\ token_analysis' = save_analysis_result(token_analysis, ta_seq,
                  analyze_single_post(i, db_posts[i].content, spacy_available,
                                      today, pb_dur))
          /\ ta_seq' = ta_seq + 1
    /\ UNCHANGED <<dbvars, analysis_stats, as_seq, stats, today, save_failures,
                   interrupts, sidecars, pbvars>>
    /\ UNCHANGED <<mvars, ravars, cvars, tvars>>

\* a spider writes the first post of a forum that was not in the database
ForumAppears ==
    /\ ForumB \notin Range(db_forums)
    /\ Len(db_posts) < MaxPosts
    /\ db_forums' = Append(db_forums, ForumB)
    /\ db_posts' = Append(db_posts, [content |-> TextAbC, forum |-> ForumB])
    /\ UNCHANGED <<spacy_available, forums_to_analyze, forum_filter, mp_config,
                   tabvars, stats, envvars, pbvars>>
    /\ UNCHANGED <<mvars, ravars, cvars, tvars>>

AnalyzeNext ==
    \/ ForumAppears
    \/ ProcessBatch
    \/ SequentialStep
    \/ SequentialFinish
    \/ ParallelCollect
    \/ ParallelFails
    \/ ParallelSave
    \/ ParallelFinish
    \/ Interrupt
    \/ NextDay
    \/ SidecarMerge
    \/ SaveAgain

SpecAnalyze == AnalyzeInit /\ [][AnalyzeNext]_vars


(***************************************************************************)
(* TokenAnalyzer.analyze_all_forums_posts                                  *)
(***************************************************************************)
\* line 823: batch_size = chunk_size * 2
RunAllBatchSize == mp_config.chunk_size * 2

\* lines 799-820: forums are detected, the pending posts counted
RunAllStart ==
    /\ ra_pc = "idle"
    /\ pb_pc = "idle"
    /\ \E show_progress \in BOOLEAN : ra_show_progress' = show_progress
    /\ LET forums == DetectForums(db_forums, forums_to_analyze)
           total_posts == get_total_posts_to_analyze(db_posts, token_analysis, forums)
       IN  /\ forums_to_analyze' = forums
           /\ ra_total_posts' = total_posts
           /\ ra_pc' = IF total_posts = 0 THEN "returned" ELSE "loop"
    /\ ra_total_analyzed' = 0
    /\ UNCHANGED <<db_forums, db_posts, spacy_available, forum_filter, mp_config, tabvars, stats,
                   envvars, pbvars>>
    /\ UNCHANGED <<mvars, cvars, tvars>>

\* lines 829-836 and 849-854: the loop condition, the scan, and the call of
\* process_batch up to its own scan
RunAllScan ==
    /\ ra_pc = "loop"
    /\ LET forums == DetectForums(db_forums, forums_to_analyze)
           posts == get_posts_to_analyze(db_posts, token_analysis, forums,
                                         RunAllBatchSize)
       IN  IF (ra_show_progress /\ ~(ra_total_analyzed < ra_total_posts)) \/ posts = <<>>
           THEN /\ ra_pc' = "returned"
                /\ UNCHANGED <<dbvars, tabvars, stats, envvars, pbvars>>
           ELSE /\ ra_pc' = "batch"
                /\ BeginBatch("all", RunAllBatchSize)
    /\ UNCHANGED <<ra_show_progress, ra_total_posts, ra_total_analyzed>>
    /\ UNCHANGED <<mvars, cvars, tvars>>

\* lines 837-846 and 855-860: process_batch has returned
RunAllAfterBatch ==
    /\ ra_pc = "batch"
    /\ pb_pc = "returned"
    /\ ra_total_analyzed' = ra_total_analyzed + pb_ret
    /\ LET remaining == get_total_posts_to_analyze(db_posts, token_analysis,
                                                   forums_to_analyze)
       IN  ra_pc' = IF remaining = 0 THEN "returned" ELSE "loop"
    /\ UNCHANGED <<dbvars, tabvars, stats, envvars, pbvars, ra_show_progress,
                   ra_total_posts>>
    /\ UNCHANGED <<mvars, cvars, tvars>>

RunAllNext ==
    \/ RunAllStart
    \/ RunAllScan
    \/ SequentialStep
    \/ SequentialFinish
    \/ ParallelCollect
    \/ ParallelFails
    \/ ParallelSave
    \/ ParallelFinish
    \/ RunAllAfterBatch

\* the analyzer's single thread keeps running, and a save fails at most
\* MaxEvents times
SpecRunAll == AnalyzeInit /\ [][RunAllNext]_vars /\ WF_vars(RunAllNext)

(***************************************************************************)
(* start_continuous_analysis and stop_continuous_analysis (lines 684-714). *)
(* The loop runs in one thread; stop_continuous_analysis is called once by *)
(* another thread, at any moment.                                          *)
(***************************************************************************)
\* line 688: self.is_running = True
ContinuousStart ==
    /\ ca_pc = "idle"
    /\ pb_pc = "idle"
    /\ is_running' = TRUE
    /\ ca_pc' = "check"
    /\ UNCHANGED <<dbvars, tabvars, stats, envvars, pbvars, stop_pc>>
    /\ UNCHANGED <<mvars, ravars, tvars>>

\* lines 691-694: the loop condition, and the call of process_batch up to
\* its scan
ContinuousCheck ==
    /\ ca_pc = "check"
    /\ IF is_running
       THEN /\ ca_pc' = "batch"
            /\ \E batch_size \in BatchSizes(db_posts) :
                  BeginBatch("continuous", batch_size)
       ELSE /\ ca_pc' = "returned"
            /\ UNCHANGED <<dbvars, tabvars, stats, envvars, pbvars>>
    /\ UNCHANGED <<is_running, stop_pc>>
    /\ UNCHANGED <<mvars, ravars, tvars>>

\* lines 696-702: process_batch has returned; time.sleep(interval_seconds)
ContinuousSleep ==
    /\ ca_pc = "batch"
    /\ pb_pc = "returned"
    /\ ca_pc' = "sleep"
    /\ UNCHANGED <<dbvars, tabvars, stats, envvars, pbvars, is_running, stop_pc>>
    /\ UNCHANGED <<mvars, ravars, tvars>>

\* the sleep is over; back to the loop condition
ContinuousWake ==
    /\ ca_pc = "sleep"
    /\ ca_pc' = "check"
    /\ UNCHANGED <<dbvars, tabvars, stats, envvars, pbvars, is_running, stop_pc>>
    /\ UNCHANGED <<mvars, ravars, tvars>>

\* lines 711-714, in the other thread: self.is_running = False
stop_continuous_analysis ==
    /\ stop_pc = "pending"
    /\ is_running' = FALSE
    /\ stop_pc' = "called"
    /\ UNCHANGED <<dbvars, tabvars, stats, envvars, pbvars, ca_pc>>
    /\ UNCHANGED <<mvars, ravars, tvars>>

\* the steps of the thread that runs the loop
ContinuousLoop ==
    \/ ContinuousStart
    \/ ContinuousCheck
    \/ SequentialStep
    \/ SequentialFinish
    \/ ParallelCollect
    \/ ParallelFails
    \/ ParallelSave
    \/ ParallelFinish
    \/ ContinuousSleep
    \/ ContinuousWake

ContinuousNext ==
    \/ ContinuousLoop
    \/ stop_continuous_analysis

\* the loop's thread keeps running; the other thread may or may not call stop
SpecContinuous ==
    AnalyzeInit /\ [][ContinuousNext]_vars /\ WF_vars(ContinuousLoop)

(***************************************************************************)
(* Threads that share one TokenAnalyzer: each analyses one post the way    *)
(* _process_batch_sequential does.  `self.stats[c] += n` reads the counter *)
(* and writes it back in two steps; `with self.lock` surrounds some of the *)
(* updates.                                                                *)
(***************************************************************************)
Acquire == [op |-> "acquire", c |-> "", n |-> 0]
Release == [op |-> "release", c |-> "", n |-> 0]
Load(c) == [op |-> "load", c |-> c, n |-> 0]
Store(c, n) == [op |-> "store", c |-> c, n |-> n]

\* the counter updates of one post of text, in the order the code performs
\* them: calculate_tokens lines 226-234 (under the lock),
\* _process_batch_sequential line 527 or 529 (no lock), update_analysis_stats
\* lines 480-482 for the one result (under the lock)
PostUpdates(text, spacy, save_ok) ==
    <<Acquire,
      Load(IF spacy THEN "spacy_tokens" ELSE "simple_tokens"),
      Store(IF spacy THEN "spacy_tokens" ELSE "simple_tokens", 1),
      Release,
      Load(IF save_ok THEN "total_posts_analyzed" ELSE "processing_errors"),
      Store(IF save_ok THEN "total_posts_analyzed" ELSE "processing_errors", 1),
      Acquire,
      Load("total_posts_analyzed"),
      Store("total_posts_analyzed", 1),
      Load("total_tokens_processed"),
      Store("total_tokens_processed", calculate_tokens(text, spacy).tokens),
      Release>>

ThreadsInit ==
    /\ MergerIdle
    /\ AnalyzerInitOn(Setup(OneForumDB, None, TRUE, DEFAULT_CHUNK_SIZE))
    /\ lock = 0
    /\ th_prog \in [Threads -> {PostUpdates(TextAbC, spacy_available, save_ok) :
                                   save_ok \in BOOLEAN}]
    /\ th_pc = [t \in Threads |-> 1]
    /\ th_reg = [t \in Threads |-> 0]
    /\ th_added = ZeroStats

NextStep(t) == th_prog[t][th_pc[t]]
ThreadRunning(t) == th_pc[t] <= Len(th_prog[t])

\* what the threads leave alone
ThreadFrame == UNCHANGED <<dbvars, tabvars, envvars, pbvars, ravars, cvars, mvars>>

\* with self.lock: entered when no thread holds the lock
ThreadAcquire ==
    /\ \E t \in Threads :
          /\ ThreadRunning(t)
          /\ NextStep(t).op = "acquire"
          /\ lock = 0
          /\ lock' = t
          /\ th_pc' = [th_pc EXCEPT ![t] = @ + 1]
    /\ UNCHANGED <<stats, th_prog, th_reg, th_added>>
    /\ ThreadFrame

ThreadRelease ==
    /\ \E t \in Threads :
          /\ ThreadRunning(t)
          /\ NextStep(t).op = "release"
          /\ lock' = 0
          /\ th_pc' = [th_pc EXCEPT ![t] = @ + 1]
    /\ UNCHANGED <<stats, th_prog, th_reg, th_added>>
    /\ ThreadFrame

\* the read of self.stats[c]
ThreadLoad ==
    /\ \E t \in Threads :
          /\ ThreadRunning(t)
          /\ NextStep(t).op = "load"
          /\ th_reg' = [th_reg EXCEPT ![t] = stats[NextStep(t).c]]
          /\ th_pc' = [th_pc EXCEPT ![t] = @ + 1]
    /\ UNCHANGED <<stats, lock, th_prog, th_added>>
    /\ ThreadFrame

\* the write of the value read plus n
ThreadStore ==
    /\ \E t \in Threads :
          /\ ThreadRunning(t)
          /\ NextStep(t).op = "store"
          /\ stats' = [stats EXCEPT ![NextStep(t).c] = th_reg[t] + NextStep(t).n]
          /\ th_added' = [th_added EXCEPT ![NextStep(t).c] = @ + NextStep(t).n]
          /\ th_pc' = [th_pc EXCEPT ![t] = @ + 1]
    /\ UNCHANGED <<lock, th_prog, th_reg>>
    /\ ThreadFrame

ThreadsNext ==
    \/ ThreadAcquire
    \/ ThreadRelease
    \/ ThreadLoad
    \/ ThreadStore

SpecThreads == ThreadsInit /\ [][ThreadsNext]_vars

(***************************************************************************)
(* The sidecar merge of merge_database: _merge_analysis_for_forum (lines   *)
(* 205-278) after the commit of a source that has an analysis database.    *)
(* token_analysis and analysis_stats of the target are the tables above.   *)
(***************************************************************************)
\* _ensure_analysis_tables lines 184-200: gender_predictions has no UNIQUE
GenderPredictionsUnique == {}

\* the analysis database of a source: one token_analysis row per post, one
\* gender_predictions row per user, one analysis_stats row
MergerSidecarDB(src) ==
    LET rows == [i \in 1..Cardinality(src["forum_posts"]) |->
                    LET p == CHOOSE x \in src["forum_posts"] : x.id = i
                    IN  [post_id |-> p.id,
                         token_count |-> 0,
                         word_count |-> 1,
                         character_count |-> Len(p.data),
                         analysis_hash |-> generate_analysis_hash(p.data),
                         analyzed_at |-> 1,
                         processing_time_ms |-> MaxDuration]]
        genders == [i \in 1..Cardinality(src["forum_users"]) |->
                       LET u == CHOOSE x \in src["forum_users"] : x.id = i
                       IN  [user_id |-> u.id, predicted_gender |-> "K",
                            data |-> u.data]]
    IN  [token_analysis |-> rows,
         analysis_stats |-> <<StatsRow(rows, 1)>>,
         gender_predictions |-> genders]

\* lines 256-271: INSERT OR REPLACE of every gender_predictions row with
\* user_id moved by the forum_users offset
RECURSIVE merge_gender_predictions(_, _, _, _)
merge_gender_predictions(gp, seq, rows, user_off) ==
    IF rows = <<>> THEN [rows |-> gp, seq |-> seq]
    ELSE LET r == [Head(rows) EXCEPT !.user_id = @ + user_off]
         IN  merge_gender_predictions(
                 InsertOrReplace(gp, seq, r, GenderPredictionsUnique), seq + 1,
                 Tail(rows), user_off)

\* merge_database lines 446-452 with _merge_analysis_for_forum, and
\* merge_all_databases line 497.  The tables in failing raise sqlite3.Error
\* at their SELECT or INSERT (lines 238, 253, 270: the part is left out).
MergeSidecarWith(failing) ==
    /\ m_pc = "sidecar"
    /\ LET sc == sidecar_dbs[m_i][1]
           post_off == IF offset_ids = None THEN 0 ELSE offset_ids["forum_posts"]
           user_off == IF offset_ids = None THEN 0 ELSE offset_ids["forum_users"]
           ta == IF "token_analysis" \in failing
                 THEN [rows |-> token_analysis, seq |-> ta_seq]
                 ELSE merge_token_analysis(token_analysis, ta_seq,
                                           sc.token_analysis, post_off)
           st == IF "analysis_stats" \in failing
                 THEN [rows |-> analysis_stats, seq |-> as_seq]
                 ELSE merge_analysis_stats(analysis_stats, as_seq,
                                           sc.analysis_stats)
           gp == IF "gender_predictions" \in failing
                 THEN [rows |-> gender_predictions, seq |-> gp_seq]
                 ELSE merge_gender_predictions(gender_predictions, gp_seq,
                                               sc.gender_predictions, user_off)
       IN  /\ token_analysis' = ta.rows
           /\ ta_seq' = ta.seq
           /\ analysis_stats' = st.rows
           /\ as_seq' = st.seq
           /\ gender_predictions' = gp.rows
           /\ gp_seq' = gp.seq
    /\ total_merged' = total_merged + merged_count
    /\ m_i' = m_i + 1
    /\ m_pc' = "next_source"
    /\ UNCHANGED <<source_dbs, use_id_offset, target, txn, m_tab, tables, offset_ids,
                   merged_count, failed, sidecar_dbs, rvars>>
    /\ UNCHANGED <<dbvars, stats, envvars, pbvars, ravars, cvars, tvars>>

MergeSidecar == MergeSidecarWith({})

\* One part of the sidecar merge fails, or the whole of it does (lines
\* 276-277 and 450-451: nothing of the sidecar is committed).
SidecarTables == {"token_analysis", "analysis_stats", "gender_predictions"}
SidecarFailures == {{t} : t \in SidecarTables} \cup {SidecarTables}

\* a sidecar failure that reaches the except branch of merge_database
MergeSidecarFails_FailsSource ==
    /\ m_pc = "sidecar"
    /\ failed' = failed \cup {m_i}
    /\ m_i' = m_i + 1
    /\ m_pc' = "next_source"
    /\ UNCHANGED <<source_dbs, use_id_offset, target, txn, m_tab, tables, offset_ids,
                   merged_count, total_merged, svars, rvars>>
    /\ UNCHANGED <<avars, tvars>>

MergeSidecarFails == \E failing \in SidecarFailures : MergeSidecarWith(failing)

\* sources with one forum, one section and one thread
SidecarSourceDBs(k) ==
    {SourceDB(k, 1, 1, nu, np) : nu \in RowCounts, np \in RowCounts}

RECURSIVE SidecarSourceListsOfLen(_)
SidecarSourceListsOfLen(n) ==
    IF n = 0 THEN {<<>>}
    ELSE {Append(s, d) : s \in SidecarSourceListsOfLen(n - 1),
                         d \in SidecarSourceDBs(n)}

SidecarSourceLists == UNION {SidecarSourceListsOfLen(n) : n \in 1..MaxSources}

\* any of the sources may come with an analysis database
SidecarChoices(srcs) ==
    {[k \in DOMAIN srcs |-> IF k \in S THEN <<MergerSidecarDB(srcs[k])>> ELSE <<>>] :
        S \in SUBSET DOMAIN srcs}

SidecarInit ==
    /\ source_dbs \in SidecarSourceLists
    /\ sidecar_dbs \in SidecarChoices(source_dbs)
    /\ use_id_offset \in BOOLEAN
    /\ target = EmptyDB
    /\ txn = EmptyDB
    /\ m_pc = "next_source"
    /\ m_i = 1
    /\ m_tab = 1
    /\ tables = <<>>
    /\ offset_ids = None
    /\ merged_count = 0
    /\ total_merged = 0
    /\ failed = {}
    /\ gender_predictions = {}
    /\ gp_seq = 0
    /\ m_ret = "None"
    /\ exit_code = -1
    /\ AnalyzerNotStarted

SidecarNext ==
    \/ MergeNext
    \/ MergeSidecar
    \/ MergeSidecarFails

SpecSidecar == SidecarInit /\ [][SidecarNext]_vars


(***************************************************************************)
(* Properties of the merger                                                *)
(***************************************************************************)
PrimaryKeysUnique(db) ==
    \A t \in TableSet : \A r1, r2 \in db[t] : r1.id = r2.id => r1 = r2

ForeignKeysResolve(db) ==
    /\ \A s \in db["forum_sections"] : \E f \in db["forums"] : f.id = s.forum_id
    /\ \A th \in db["forum_threads"] : \E s \in db["forum_sections"] : s.id = th.section_id
    /\ \A p \in db["forum_posts"] : \E th \in db["forum_threads"] : th.id = p.thread_id
    /\ \A p \in db["forum_posts"] : \E u \in db["forum_users"] : u.id = p.user_id

MergeSucceeded == m_pc = "done" /\ failed = {}

\* the source row a target row was copied from
SourceRowOf(t, r) ==
    CHOOSE x \in source_dbs[r.data[1]][t] : x.id = r.data[2]

RECURSIVE SourceRowCount(_, _)
SourceRowCount(k, t) ==
    IF k = 0 THEN 0 ELSE Cardinality(source_dbs[k][t]) + SourceRowCount(k - 1, t)

\* the target row with primary key id is the copy of row src_id of source k
IsImageOf(db, t, id, k, src_id) ==
    \E x \in db[t] : x.id = id /\ x.data = <<k, src_id>>

ReferencesPreserved(db) ==
    /\ \A s \in db["forum_sections"] :
          IsImageOf(db, "forums", s.forum_id, s.data[1],
                    SourceRowOf("forum_sections", s).forum_id)
    /\ \A th \in db["forum_threads"] :
          IsImageOf(db, "forum_sections", th.section_id, th.data[1],
                    SourceRowOf("forum_threads", th).section_id)
    /\ \A p \in db["forum_posts"] :
          /\ IsImageOf(db, "forum_threads", p.thread_id, p.data[1],
                       SourceRowOf("forum_posts", p).thread_id)
          /\ IsImageOf(db, "forum_users", p.user_id, p.data[1],
                       SourceRowOf("forum_posts", p).user_id)

\* C1: with ID offsets enabled, after a merge of N sources without a source
\* failure no two rows of a target table share a primary key and every
\* foreign key of forum_sections, forum_threads and forum_posts is the id of
\* a row of the target's parent table.
C1_KeysUniqueAndResolvable ==
    (MergeSucceeded /\ use_id_offset) =>
        (PrimaryKeysUnique(target) /\ ForeignKeysResolve(target))

C1_Witness ==
    /\ MergeSucceeded /\ use_id_offset
    /\ Len(source_dbs) >= 2
    /\ \E p1, p2 \in target["forum_posts"] :
          p1.data[1] = 1 /\ p2.data[1] = 2 /\ p2.thread_id # p2.data[2]

RowsFrom(db, k, t) == {r \in db[t] : r.data[1] = k}

\* C10: when an insert fails while source k is merged, none of source k's
\* rows is in the target, the rows of the sources committed before stay as
\* they were, and the later sources are still merged with unique primary
\* keys and resolvable foreign keys.
C10_FailedSourceRolledBack ==
    /\ [](/\ \A k \in failed : \A t \in TableSet : RowsFrom(target, k, t) = {}
          /\ (m_pc = "done" /\ use_id_offset) =>
                /\ PrimaryKeysUnique(target)
                /\ ForeignKeysResolve(target)
                /\ \A k \in (1..Len(source_dbs)) \ failed : \A t \in TableSet :
                      Cardinality(RowsFrom(target, k, t)) = Cardinality(source_dbs[k][t]))
    /\ [][\A t \in TableSet : target[t] \subseteq target'[t]]_vars

C10_Witness ==
    /\ m_pc = "done" /\ use_id_offset
    /\ 1 \in failed /\ 2 \notin failed
    /\ Len(source_dbs) >= 2
    /\ target["forum_posts"] # {}

\* C11: after a merge, every username of the target is the forum name of its
\* source, an underscore and the name the user had in the source, and no two
\* users of the target have the same username.
C11_UsernamesPrefixedUnique ==
    m_pc = "done" =>
        /\ \A u \in target["forum_users"] :
              u.username = <<SpiderNames[u.data[1]], "_">>
                               \o SourceRowOf("forum_users", u).username
        /\ \A u1, u2 \in target["forum_users"] :
              u1.username = u2.username => u1 = u2


(***************************************************************************)
(* Properties of the analyzer                                              *)
(***************************************************************************)
BatchActive == pb_pc \in {"sequential", "parallel", "parallel_save"}
BatchIds == {pb_posts[k].id : k \in DOMAIN pb_posts}
AnalysableIds ==
    {pb_posts[k].id : k \in {j \in DOMAIN pb_posts :
                                /\ pb_posts[j].content # None
                                /\ ~encode_raises(pb_posts[j].content)}}
ResultFields ==
    {"id", "post_id", "token_count", "word_count", "character_count",
     "analysis_hash", "analyzed_at", "processing_time_ms"}

\* C2: whatever batches, repeated saves, fallbacks and sidecar merges have
\* run, token_analysis never holds two rows with the same post_id.
C2_OneRowPerPost ==
    \A r1, r2 \in token_analysis : r1.post_id = r2.post_id => r1 = r2

\* a post was saved a second time and a sidecar database was merged
C2_Witness ==
    /\ resaves > 0
    /\ sidecars > 0
    /\ token_analysis # {}
    /\ ta_seq > Cardinality(token_analysis)

C5_RunAllTerminates == <>(ra_pc = "returned")

\* C6 as stated: when analyze_all_forums_posts has returned, every post of
\* the selected forums with non-empty content has a token_analysis row.
C6_ReturnedMeansAllAnalysed ==
    ra_pc = "returned" =>
        \A i \in DOMAIN db_posts :
            (/\ db_posts[i].forum \in Range(forums_to_analyze)
             /\ db_posts[i].content \notin {None, <<>>})
            => HasAnalysis(token_analysis, i)

\* C7 as stated: of the analysable posts of a batch either all have a
\* token_analysis row or none has.
C7_BatchAllOrNothing ==
    \/ \A i \in AnalysableIds : HasAnalysis(token_analysis, i)
    \/ \A i \in AnalysableIds : ~HasAnalysis(token_analysis, i)

\* C7: persisting is atomic per record, not per batch: every result whose
\* save succeeded has its complete row from that step on, each step of a
\* batch adds at most one row, and a failed save or a kill of the analyzer
\* leaves the rows committed earlier in the batch in place.
C7_RecordAtomic ==
    /\ [](\A i \in pb_saved : \E r \in token_analysis :
             r.post_id = i /\ DOMAIN r = ResultFields)
    /\ [][BatchActive =>
             /\ token_analysis \subseteq token_analysis'
             /\ Cardinality(token_analysis' \ token_analysis) <= 1]_vars

\* a batch has returned with one result committed and another one not
C7_Witness ==
    /\ pb_pc = "returned"
    /\ pb_saved # {}
    /\ pb_count > Cardinality(pb_saved)
    /\ \E i \in AnalysableIds : ~HasAnalysis(token_analysis, i)

\* C8 as stated: the value process_batch returns is the number of rows the
\* call committed.
C8_ReturnsCommittedCount ==
    pb_pc = "returned" => pb_ret = Cardinality(pb_saved)

\* C9 as stated: analysis_stats holds at most one row per analysis_date, and
\* it accounts for every token_analysis row written on that date.
C9_OneStatsRowPerDate ==
    \A r1, r2 \in analysis_stats : r1.analysis_date = r2.analysis_date => r1 = r2

RECURSIVE ConcatChunks(_, _, _)
ConcatChunks(posts, chunk_size, c) ==
    IF c = 0 THEN <<>>
    ELSE ConcatChunks(posts, chunk_size, c - 1) \o Chunk(posts, chunk_size, c)

AllChunks == 1..NumChunks(Len(pb_posts), mp_config.chunk_size)

PendingWithContent(posts, ta, forums) ==
    {i \in PendingIds(posts, ta, forums) : posts[i].content \notin {None, <<>>}}

\* C13 as stated: the batch a scan returns is made of the lowest-id posts, in
\* ascending id order and up to a limit of at least one, among the posts of
\* the selected forums that have non-empty content and no token_analysis row.
C13_ScanReturnsPendingWithContent ==
    [][(pb_pc \in {"idle", "returned"} /\ pbvars' # pbvars) =>
          LET pending == SortedSeq(PendingWithContent(db_posts, token_analysis,
                                                      forums_to_analyze'))
              ids == [k \in DOMAIN pb_posts' |-> pb_posts'[k].id]
          IN  /\ Len(ids) <= Len(pending)
              /\ ids = SubSeq(pending, 1, Len(ids))
              /\ Len(ids) >= 1 \/ pending = <<>>]_vars

\* the posts of the batch whose analysis raises
RaisingIds ==
    {pb_posts[k].id : k \in {j \in DOMAIN pb_posts : encode_raises(pb_posts[j].content)}}

\* C14 as stated: when the analysis of one post of a batch raises, the error
\* is counted in processing_errors (by exactly one at the sequential step
\* that analyses the post; at least once per raising post when the batch has
\* returned, in either mode), no row is written for that post, and every
\* other post of the batch with content is analysed and persisted.
C14_AnalysisErrorCounted ==
    /\ [](pb_pc = "returned" /\ save_failures = 0 /\ sidecars = 0 =>
            /\ stats.processing_errors >= Cardinality(RaisingIds)
            /\ \A i \in RaisingIds : ~HasAnalysis(token_analysis, i)
            /\ \A i \in AnalysableIds : HasAnalysis(token_analysis, i))
    /\ [][(/\ pb_pc = "sequential"
           /\ pb_k <= Len(pb_posts)
           /\ pb_k' = pb_k + 1
           /\ encode_raises(pb_posts[pb_k].content)) =>
              /\ stats'.processing_errors = stats.processing_errors + 1
              /\ token_analysis' = token_analysis]_vars

\* C15 as stated: once stop_continuous_analysis has been called, the loop
\* starts no new batch at a check of the running flag, it eventually
\* returns, and it returns with no batch left half-way.
C15_StopEndsLoop ==
    /\ [][stop_pc = "called" /\ ca_pc = "check" => ca_pc' # "batch"]_vars
    /\ (stop_pc = "called" ~> ca_pc = "returned")
    /\ [](ca_pc = "returned" => ~BatchActive)

\* the forums a scan has to cover: the named ones, or every forum of the
\* forums table when the analyzer was constructed without a filter
ForumsToCover == IF forum_filter = None THEN db_forums ELSE forum_filter

\* C16 as stated: every scan returns the lowest-id pending posts of the named
\* forums or, when no forum is named, of every forum that is in the forums
\* table at the time of the scan.
C16_ScanCoversForumsOfThatTime ==
    [][(pb_pc \in {"idle", "returned"} /\ pbvars' # pbvars) =>
          LET pending == SortedSeq(PendingIds(db_posts, token_analysis, ForumsToCover))
              ids == [k \in DOMAIN pb_posts' |-> pb_posts'[k].id]
          IN  /\ Len(ids) <= Len(pending)
              /\ ids = SubSeq(pending, 1, Len(ids))
              /\ Len(ids) >= 1 \/ pending = <<>>]_vars

\* C17 as stated: saving the analysis of a post once more, its content being
\* the same, leaves the post's token_analysis row as the first save wrote it
\* (id, counts, hash, analyzed_at, processing_time_ms).
C17_SecondSaveIsNoOp ==
    [][resaves' = resaves + 1 => token_analysis' = token_analysis]_vars

\* the forum name of source k: the spider_name of its forums row
ForumNameOf(k) == (CHOOSE f \in source_dbs[k]["forums"] : TRUE).spider_name

\* C18: the source's forum_users rows have no forum_id column; every
\* forum_users row of the target, of the first source or a later one, with
\* offsets or without, has the column forum_id holding the forum name of the
\* source it was copied from, next to the source row's columns: the id (shifted
\* by the same amount for all rows of a source), the username (with or
\* without its prefix) and the remaining data.
C18_UsersCarryForumName ==
    /\ \A k \in DOMAIN source_dbs : \A r \in source_dbs[k]["forum_users"] :
          "forum_id" \notin DOMAIN r
    /\ \A db \in {target, txn} : \A u \in db["forum_users"] :
          LET k == u.data[1]
              src == SourceRowOf("forum_users", u)
          IN  /\ DOMAIN u = DOMAIN src \cup {"forum_id"}
              /\ u.forum_id = ForumNameOf(k)
              /\ u.data = src.data
              /\ u.username \in {src.username, <<ForumNameOf(k), "_">> \o src.username}
              /\ \A v \in RowsFrom(db, k, "forum_users") :
                    v.id - SourceRowOf("forum_users", v).id = u.id - src.id

\* two sources were merged with offsets, and the target holds users of both,
\* those of the second under shifted ids
C18_Witness ==
    /\ m_pc = "done" /\ failed = {} /\ use_id_offset
    /\ \E u1, u2 \in target["forum_users"] :
          /\ u1.data[1] = 1 /\ u1.forum_id = SpiderNames[1]
          /\ u2.data[1] = 2 /\ u2.forum_id = SpiderNames[2]
          /\ u2.id # SourceRowOf("forum_users", u2).id

\* C19: merging a further source never changes or removes a committed row:
\* every table of the target, the analysis tables included, only grows, in
\* both modes; and without offsets the insert of a source table leaves every
\* row it finds as it is, skips each source row whose primary key is taken,
\* and inserts the others under their own ids.
C19_CommittedRowsOnlyGrow ==
    /\ [][/\ \A t \in TableSet : target[t] \subseteq target'[t]
          /\ token_analysis \subseteq token_analysis'
          /\ analysis_stats \subseteq analysis_stats'
          /\ gender_predictions \subseteq gender_predictions']_vars
    /\ [][(m_pc = "tables" /\ m_tab' = m_tab + 1 /\ ~use_id_offset) =>
             LET t == tables[m_tab]
             IN  /\ txn[t] \subseteq txn'[t]
                 /\ \A r \in source_dbs[m_i][t] :
                       IF \E y \in txn[t] : y.id = r.id
                       THEN {x \in txn'[t] : x.id = r.id} = {x \in txn[t] : x.id = r.id}
                       ELSE \E x \in txn'[t] : x.id = r.id /\ x.data = r.data]_vars

\* two sources were merged without offsets and without an error; a post of
\* the second source was skipped because its id was taken by the first
C19_Witness ==
    /\ m_pc = "done" /\ failed = {} /\ ~use_id_offset
    /\ Len(source_dbs) >= 2
    /\ \E r \in source_dbs[2]["forum_posts"] :
          /\ \E x \in target["forum_posts"] : x.id = r.id /\ x.data[1] = 1
          /\ \A x \in target["forum_posts"] : x.data # r.data
    /\ \A r \in source_dbs[1]["forum_posts"] : r \in target["forum_posts"]

\* C20 as stated: every token_analysis row of the target belongs to the post
\* it belonged to in its source - the target post under the row's post_id is
\* the copy of that post - and every gender_predictions row to its user.
C20_SidecarRowsFollowTheirRows ==
    /\ \A r \in token_analysis :
          \E p \in target["forum_posts"] :
             p.id = r.post_id /\ generate_analysis_hash(p.data) = r.analysis_hash
    /\ \A g \in gender_predictions :
          \E u \in target["forum_users"] : u.id = g.user_id /\ u.data = g.data

\* the number of rows source k holds in its five tables
RECURSIVE RowsOfSource(_, _)
RowsOfSource(k, n) ==
    IF n = 0 THEN 0
    ELSE Cardinality(source_dbs[k][TableOrder[n]]) + RowsOfSource(k, n - 1)

\* the sidecar of source k was merged into none of the analysis tables
SidecarLeftOut(k) ==
    /\ sidecar_dbs[k] # <<>>
    /\ \A r \in token_analysis : r.analysis_hash[2] # k
    /\ \A g \in gender_predictions : g.data[1] # k

\* C21: while and after the sidecar of a source is merged, whether it
\* succeeds or fails in a part or as a whole, the source's primary rows are
\* committed in the target and stay as they are, the source is counted with
\* the number of its primary rows and is not marked as failed, and the merge
\* goes on to the next source; at the end every source that did not fail in
\* its primary merge has all its rows in the target.
C21_SidecarFailureKeepsPrimaryMerge ==
    /\ [](m_pc = "sidecar" =>
            /\ target = txn
            /\ use_id_offset =>
                  \A t \in TableSet :
                     Cardinality(RowsFrom(target, m_i, t))
                        = Cardinality(source_dbs[m_i][t]))
    /\ [][m_pc = "sidecar" =>
             /\ target' = target
             /\ total_merged' = total_merged + RowsOfSource(m_i, Len(TableOrder))
             /\ failed' = failed
             /\ m_i' = m_i + 1
             /\ m_pc' = "next_source"]_vars
    /\ [](m_pc = "done" /\ use_id_offset =>
            \A k \in DOMAIN source_dbs \ failed : \A t \in TableSet :
               Cardinality(RowsFrom(target, k, t)) = Cardinality(source_dbs[k][t]))

\* the sidecar merge of the first source failed as a whole, and the second
\* source was merged after it
C21_Witness ==
    /\ m_pc = "done" /\ use_id_offset /\ failed = {}
    /\ Len(source_dbs) >= 2
    /\ SidecarLeftOut(1)
    /\ RowsFrom(target, 1, "forum_posts") # {}
    /\ RowsFrom(target, 2, "forum_posts") # {}
    /\ total_merged = RowsOfSource(1, Len(TableOrder)) + RowsOfSource(2, Len(TableOrder))

\* C22 as stated: the merge run reports success - merge_all_databases
\* returns a true result and the script exits with 0 - exactly when every
\* source was merged, and failure when at least one source failed.
C22_FailureReported ==
    m_pc = "done" =>
        /\ m_ret = "True" <=> failed = {}
        /\ exit_code = 0 <=> failed = {}

\* n is MAX(id) of the rows, 0 for no rows
IsMaxId(n, rows) ==
    /\ \A r \in rows : r.id <= n
    /\ IF rows = {} THEN n = 0 ELSE \E r \in rows : r.id = n

FallbackReturned ==
    /\ pb_pc = "returned"
    /\ mp_config.use_multiprocessing
    /\ Len(pb_posts) > MP_THRESHOLD
    /\ pb_done = {}

\* C24: process_batch takes the worker pool exactly when multiprocessing is
\* enabled and the batch has more than MP_THRESHOLD posts; when the pool
\* fails the whole batch is processed sequentially, and the call ends with
\* one token_analysis row per analysable post and with the batch counted
\* once in the statistics: one analysis_stats row and a total_posts_analyzed
\* that grew by the number of posts of the batch that were saved.
C24_FallbackCountsBatchOnce ==
    /\ [][(pb_pc \in {"idle", "returned"} /\ pb_pc' \notin {"idle", "returned"}) =>
             /\ pb_pc' \in {"parallel", "sequential"}
             /\ pb_pc' = "parallel" <=>
                   (mp_config.use_multiprocessing /\ Len(pb_posts') > MP_THRESHOLD)]_vars
    /\ [][(pb_pc = "parallel" /\ pb_pc' = "sequential") =>
             /\ pb_posts' = pb_posts
             /\ pb_k' = 1
             /\ pb_results' = <<>>
             /\ token_analysis' = token_analysis
             /\ stats' = stats]_vars
    /\ []((FallbackReturned /\ pb_saved = AnalysableIds /\ interrupts = 0) =>
             /\ \A i \in AnalysableIds :
                   Cardinality({r \in token_analysis : r.post_id = i}) = 1
             /\ Cardinality(analysis_stats) = 1
             /\ \A r \in analysis_stats :
                   r.posts_analyzed = Cardinality(AnalysableIds)
             /\ stats.total_posts_analyzed = Cardinality(AnalysableIds))

\* the same without the in-memory counter: what the code does after the pool
\* has failed
C24_FallbackRows ==
    /\ [][(pb_pc \in {"idle", "returned"} /\ pb_pc' \notin {"idle", "returned"}) =>
             /\ pb_pc' \in {"parallel", "sequential"}
             /\ pb_pc' = "parallel" <=>
                   (mp_config.use_multiprocessing /\ Len(pb_posts') > MP_THRESHOLD)]_vars
    /\ []((FallbackReturned /\ pb_saved = AnalysableIds /\ interrupts = 0) =>
             /\ \A i \in AnalysableIds :
                   Cardinality({r \in token_analysis : r.post_id = i}) = 1
             /\ Cardinality(analysis_stats) = 1
             /\ \A r \in analysis_stats :
                   r.posts_analyzed = Cardinality(AnalysableIds)
             /\ stats.total_posts_analyzed = 2 * Cardinality(AnalysableIds))

C24_FallbackState ==
    /\ FallbackReturned /\ pb_saved = AnalysableIds /\ interrupts = 0
    /\ Cardinality(AnalysableIds) = MP_THRESHOLD + 1



\* the values the claim gives for a text
StatedCounts(text) ==
    LET word_count == Len(SelectSeq(split(text), LongEnough))
    IN  IF text = <<>> THEN [tokens |-> 0, words |-> 0, characters |-> 0]
        ELSE [tokens |-> TimesFactor(word_count),
              words |-> word_count,
              characters |-> Len(text)]

\* C25: the values of a result do not depend on the path: for every post
\* analysed in a batch, the sequential computation (primary tokenizer
\* unavailable) and the worker computation give the same character_count,
\* word_count, token_count and hash, which are the length of the text, the
\* number of its words of at least min_word_length characters, that number
\* times the language factor truncated, and 0, 0, 0 for the empty text.
C25_PathsStoreSameValues ==
    \A k \in DOMAIN pb_results :
        LET r == pb_results[k]
            text == db_posts[r.post_id].content
            seq == analyze_single_post(r.post_id, text, FALSE, r.analyzed_at,
                                       r.processing_time_ms)
            par == worker_result(r.post_id, text, r.analyzed_at,
                                 r.processing_time_ms)
        IN  /\ r \in {seq, par}
            /\ seq = par
            /\ r.character_count = StatedCounts(text).characters
            /\ r.word_count = StatedCounts(text).words
            /\ r.token_count = StatedCounts(text).tokens
            /\ r.analysis_hash = generate_analysis_hash(text)



\* the results a step adds for posts with non-empty content
NewResults ==
    {k \in (Len(pb_results) + 1)..Len(pb_results') :
        db_posts[pb_results'[k].post_id].content # <<>>}

\* C26: whenever posts with non-empty content are analysed, on the
\* sequential and on the parallel path, one method counter goes up by one
\* per post and it is the counter of the tokenizer that produced the
\* token_count; with the primary tokenizer unavailable this is
\* simple_tokens, the heuristic token_count is in the result and the
\* analysis counts no error.
C26_OneMethodCounterPerPost ==
    [][Len(pb_results') > Len(pb_results) =>
          /\ stats'.simple_tokens = stats.simple_tokens +
                (IF spacy_available THEN 0 ELSE Cardinality(NewResults))
          /\ stats'.spacy_tokens = stats.spacy_tokens +
                (IF spacy_available THEN Cardinality(NewResults) ELSE 0)
          /\ \A k \in NewResults :
                pb_results'[k].token_count =
                    IF spacy_available
                    THEN calculate_tokens_spacy(db_posts[pb_results'[k].post_id].content)
                    ELSE calculate_tokens_simple(db_posts[pb_results'[k].post_id].content)
          /\ (save_failures' = save_failures =>
                 stats'.processing_errors = stats.processing_errors)]_vars



\* C27: while a source is merged its tables are inserted in the dependency
\* order forums, forum_sections, forum_threads, forum_users, forum_posts,
\* whatever order the source lists them in, so that at every moment every
\* child row the target connection sees has its parent row.
C27_ParentsInsertedFirst ==
    m_pc = "tables" =>
        /\ \A n \in 1..(m_tab - 1) : tables[n] = TableOrder[n]
        /\ ForeignKeysResolve(txn)



\* C28 as stated: every batch is committed on its own, so when an insert
\* fails what the batches before it inserted for that source is in the
\* target.
C28_EarlierBatchesDurable ==
    [][(m_pc = "tables" /\ failed' # failed) =>
          \A n \in 1..(m_tab - 1) : txn[tables[n]] \subseteq target'[tables[n]]]_vars

\* C28 (amended): the rows of a table are inserted in batches of insert_batch_size
\* inside the one transaction of the source: no batch changes the committed
\* target, the target changes only in the commit after the last table, which
\* makes all batches of the source durable at once, and after a failure in a
\* later batch no batch of that source is in the target.
C28_BatchesCommittedWithSource ==
    /\ [][(m_pc = "tables" /\ m_tab' = m_tab + 1) =>
             /\ NumBatches(Cardinality(source_dbs[m_i][tables[m_tab]])) = 1
             /\ target' = target]_vars
    /\ [][target' # target =>
             /\ m_pc = "tables" /\ m_tab > Len(tables)
             /\ target' = txn
             /\ m_i \notin failed']_vars
    /\ [][(m_pc = "tables" /\ failed' # failed) =>
             /\ target' = target
             /\ \A t \in TableSet : RowsFrom(target', m_i, t) = {}]_vars

\* the insert of the second source failed after batches of its first tables
\* had been inserted; the target holds the first source and nothing of the
\* second
C28_Witness ==
    /\ m_pc = "next_source" /\ m_i = 3 /\ failed = {2}
    /\ m_tab > 2 /\ merged_count >= 2
    /\ \A t \in TableSet :
          /\ RowsFrom(target, 2, t) = {}
          /\ RowsFrom(target, 1, t) # {}



\* a thread is between the read and the write of a counter
InUpdate(t) == ThreadRunning(t) /\ NextStep(t).op = "store"
Counters == DOMAIN ZeroStats

\* C29: every update of a counter is performed by a thread that holds the
\* lock, and no interleaving of the threads loses an increment: whenever no
\* thread is inside an update, every counter equals the sum of the
\* increments performed on it.
C29_NoLostIncrement ==
    /\ \A t \in Threads : InUpdate(t) => lock = t
    /\ (\A t \in Threads : ~InUpdate(t)) =>
          \A c \in Counters : stats[c] = th_added[c]

\* both threads have finished and an increment of total_posts_analyzed is lost
C29_LostIncrement ==
    /\ \A t \in Threads : ~ThreadRunning(t)
    /\ stats.total_posts_analyzed < th_added.total_posts_analyzed



\* C30: total_posts_analyzed counts every result this analyzer has persisted
\* exactly once, on both paths: every step of a batch adds to the counter
\* the number of posts whose save succeeded in that step, and nothing else.
C30_CountsPersistedOnce ==
    [][(BatchActive /\ pb_pc' # "idle") =>
          stats'.total_posts_analyzed =
              stats.total_posts_analyzed + Cardinality(pb_saved' \ pb_saved)]_vars


====
